---- MODULE Spec2Model ----
(***************************************************************************)
(* Model of rfw_service/iptables.py: the Rule value object, the listing    *)
(* parser Iptables._iptables_list(), Iptables.find(),                      *)
(* Iptables.rule_to_command(), Iptables.exe_rule() and the lock-guarded    *)
(* Iptables.exe().                                                         *)
(*                                                                         *)
(* Python strings are sequences of one-character strings, so that strip(), *)
(* split(), join(), slicing, isdigit(), the substring test and the regular *)
(* expression are computed character by character.                         *)
(***************************************************************************)
EXTENDS Integers, Sequences, FiniteSets, TLC

(***************************************************************************)
(* Bounds of the model.                                                    *)
(***************************************************************************)
\* most Rule records one parse accumulates
MaxRules == 2

\* number of caller threads
NThreads == 2

\* most rules in the firewall
MaxFw == 2

(***************************************************************************)
(* String literals.                                                        *)
(***************************************************************************)
T_Chain == <<"C","h","a","i","n">>
INPUT == <<"I","N","P","U","T">>
OUTPUT == <<"O","U","T","P","U","T">>
FORWARD == <<"F","O","R","W","A","R","D">>
DOCKER == <<"D","O","C","K","E","R">>
T_policy == <<"(","p","o","l","i","c","y">>
T_refs == <<"(","1">>
T_references == <<"r","e","f","e","r","e","n","c","e","s",")">>
ACCEPT == <<"A","C","C","E","P","T">>
DROP == <<"D","R","O","P">>
H_num == <<"n","u","m">>
H_pkts == <<"p","k","t","s">>
H_bytes == <<"b","y","t","e","s">>
H_target == <<"t","a","r","g","e","t">>
H_prot == <<"p","r","o","t">>
H_opt == <<"o","p","t">>
H_in == <<"i","n">>
H_out == <<"o","u","t">>
H_source == <<"s","o","u","r","c","e">>
H_destination == <<"d","e","s","t","i","n","a","t","i","o","n">>
P_all == <<"a","l","l">>
P_tcp == <<"t","c","p">>
O_none == <<"-","-">>
IF_any == <<"*">>
ADDR_ANY == <<"0",".","0",".","0",".","0","/","0">>
ADDR_A == <<"1",".","2",".","3",".","4">>
X_dpt == <<"d","p","t",":">>
X_spt == <<"s","p","t",":">>
E_dpt7373 == <<"d","p","t",":","7","3","7","3">>
E_spt34543 == <<"s","p","t",":","3","4","5","4","3">>
E_dpts == <<"d","p","t","s",":","2","0",":","3","0">>
PORT_7373 == <<"7","3","7","3">>
PORT_34543 == <<"3","4","5","4","3">>
F_p == <<"-","p">>
F_dport == <<"-","-","d","p","o","r","t">>
F_sport == <<"-","-","s","p","o","r","t">>
F_d == <<"-","d">>
F_s == <<"-","s">>
F_j == <<"-","j">>
F_I == <<"-","I">>
F_D == <<"-","D">>
F_h == <<"-","h">>
F_n == <<"-","n">>
F_L == <<"-","L">>
F_v == <<"-","v">>
F_x == <<"-","x">>
F_linenumbers == <<"-","-","l","i","n","e","-","n","u","m","b","e","r","s">>
C_open == <<"/","*">>
C_close == <<"*","/">>
T_hash == <<"#">>
T_note == <<"n","o","t","e">>
D0 == <<"0">>
D1 == <<"1">>
D2 == <<"2">>
D7 == <<"7">>
M_I == <<"I">>
M_D == <<"D">>
M_A == <<"A">>
IPT_PATH == <<"i","p","t","a","b","l","e","s">>
IF_eth0 == <<"e","t","h","0">>
O_frag == <<"-","f">>
A_paren == <<"A","C","C","E","P","T",")">>

\* Python's None; also the empty string, which is as falsy as None
None == << >>

IPTABLES_HEADERS ==
  <<H_num, H_pkts, H_bytes, H_target, H_prot, H_opt, H_in, H_out, H_source, H_destination>>

RULE_ATTRS ==
  <<"chain", "num", "pkts", "bytes", "target", "prot", "opt", "inp", "out",
    "source", "destination", "extra">>

RULE_CHAINS == {INPUT, OUTPUT, FORWARD}

(***************************************************************************)
(* String primitives of the Python runtime.                                *)
(***************************************************************************)
Digits == {"0","1","2","3","4","5","6","7","8","9"}

Letters ==
  {"a","b","c","d","e","f","g","h","i","j","k","l","m","n","o","p","q","r","s","t",
   "u","v","w","x","y","z","A","B","C","D","E","F","G","H","I","J","K","L","M","N",
   "O","P","Q","R","S","T","U","V","W","X","Y","Z"}

\* the class \w of the re module
WordChars == Letters \cup Digits \cup {"_"}

IsSpace(c) == c = " "

\* str.isdigit(): non-empty and every character a digit
IsDigit(s) == Len(s) > 0 /\ \A i \in 1..Len(s) : s[i] \in Digits

\* sub in s
Contains(s, sub) ==
  \E i \in 1..(Len(s) - Len(sub) + 1) : SubSeq(s, i, i + Len(sub) - 1) = sub

\* s[:n]
Take(s, n) == SubSeq(s, 1, IF n < Len(s) THEN n ELSE Len(s))

\* s[n:] with n counted from 0
Drop(s, n) == SubSeq(s, n + 1, Len(s))

\* length of the longest prefix of s whose characters are all in set
RECURSIVE RunLen(_, _)
RunLen(s, set) ==
  IF s = << >> \/ Head(s) \notin set THEN 0 ELSE 1 + RunLen(Tail(s), set)

\* length of the longest prefix of s holding no character of set
RECURSIVE RunLenNot(_, _)
RunLenNot(s, set) ==
  IF s = << >> \/ Head(s) \in set THEN 0 ELSE 1 + RunLenNot(Tail(s), set)

RECURSIVE LStrip(_)
LStrip(s) == IF s # << >> /\ IsSpace(Head(s)) THEN LStrip(Tail(s)) ELSE s

RECURSIVE RStrip(_)
RStrip(s) ==
  IF s # << >> /\ IsSpace(s[Len(s)]) THEN RStrip(SubSeq(s, 1, Len(s) - 1)) ELSE s

\* str.strip()
Strip(s) == RStrip(LStrip(s))

\* str.split() without argument: the maximal runs of non-whitespace
RECURSIVE Split(_)
Split(s) ==
  IF s = << >> THEN << >>
  ELSE IF IsSpace(Head(s)) THEN Split(Tail(s))
  ELSE LET n == RunLenNot(s, {" "})
       IN  <<SubSeq(s, 1, n)>> \o Split(Drop(s, n))

\* str.split(sep) for a one-character sep: the pieces between separators
RECURSIVE SplitOn(_, _)
SplitOn(s, sep) ==
  LET n == RunLenNot(s, {sep})
  IN  IF n = Len(s) THEN <<s>>
      ELSE <<SubSeq(s, 1, n)>> \o SplitOn(Drop(s, n + 1), sep)

\* " ".join(toks)
RECURSIVE JoinSp(_)
JoinSp(toks) ==
  IF toks = << >> THEN << >>
  ELSE IF Len(toks) = 1 THEN toks[1]
  ELSE toks[1] \o <<" ">> \o JoinSp(Tail(toks))

\* re.match(r"Chain (\w+) .*", line): group(1), or None when there is no match
ChainMatch(line) ==
  LET pre == T_Chain \o <<" ">>
      rest == Drop(line, Len(pre))
      n == RunLen(rest, WordChars)
  IN  IF Take(line, Len(pre)) = pre /\ n >= 1 /\ n < Len(rest) /\ rest[n + 1] = " "
      THEN SubSeq(rest, 1, n)
      ELSE None

(***************************************************************************)
(* Rule: the namedtuple over RULE_ATTRS.                                   *)
(***************************************************************************)
TypeError == "TypeError"
AssertionError == "AssertionError"
NoError == "NoError"

\* Rule(props) for a list props: RuleProto.__new__(_cls, *props) takes exactly
\* one positional argument per attribute
RuleArityOk(props) == Len(props) = Len(RULE_ATTRS)

Rule(props) ==
  [chain |-> props[1], num |-> props[2], pkts |-> props[3], bytes |-> props[4],
   target |-> props[5], prot |-> props[6], opt |-> props[7], inp |-> props[8],
   out |-> props[9], source |-> props[10], destination |-> props[11],
   extra |-> props[12]]

\* Rule(props) for a dictionary props: the defaults, updated with props
RuleDefaults ==
  [chain |-> None, num |-> None, pkts |-> None, bytes |-> None, target |-> None,
   prot |-> P_all, opt |-> O_none, inp |-> IF_any, out |-> IF_any,
   source |-> ADDR_ANY, destination |-> ADDR_ANY, extra |-> << >>]

RuleFromDict(props) ==
  [f \in DOMAIN RuleDefaults |-> IF f \in DOMAIN props THEN props[f] ELSE RuleDefaults[f]]

\* isinstance(other, self.__class__)
IsRule(x) == DOMAIN x = {RULE_ATTRS[i] : i \in 1..Len(RULE_ATTRS)}

\* Rule.__eq__
Rule_eq(self, other) ==
  IF IsRule(other)
  THEN /\ self.chain = other.chain /\ self.target = other.target
       /\ self.prot = other.prot /\ self.opt = other.opt
       /\ self.inp = other.inp /\ self.out = other.out
       /\ self.source = other.source /\ self.destination = other.destination
  ELSE FALSE

\* Rule.__ne__
Rule_ne(self, other) == ~Rule_eq(self, other)

(***************************************************************************)
(* Iptables.find(): query is the list of the dictionary's items, in the    *)
(* order the dictionary yields them; each item is [param, vals].           *)
(***************************************************************************)
\* rule_val not in vals, vals a list
NotIn(val, vals) == ~\E i \in 1..Len(vals) : vals[i] = val

MatchedAll_any(rule, items) ==
  items = << >> \/ \E i \in 1..Len(items) : ~NotIn(rule[items[i].param], items[i].vals)

\* the inner loop: False at the first clause the rule does not match
RECURSIVE MatchedAll(_, _)
MatchedAll(rule, items) ==
  IF items = << >> THEN TRUE
  ELSE IF NotIn(rule[Head(items).param], Head(items).vals) THEN FALSE
  ELSE MatchedAll(rule, Tail(items))

\* the outer loop over self.rules
RECURSIVE find(_, _)
find(selfrules, items) ==
  IF selfrules = << >> THEN << >>
  ELSE (IF MatchedAll(Head(selfrules), items) THEN <<Head(selfrules)>> ELSE << >>)
       \o find(Tail(selfrules), items)

(***************************************************************************)
(* Iptables.rule_to_command().                                             *)
(***************************************************************************)
ChainOk_any(rule) == TRUE

\* assert r.chain == 'INPUT' or r.chain == 'OUTPUT' or r.chain == 'FORWARD'
ChainOk(rule) == rule.chain = INPUT \/ rule.chain = OUTPUT \/ rule.chain = FORWARD

ProtArgs(rule) == IF rule.prot # P_all THEN <<F_p, rule.prot>> ELSE << >>

\* one token of extra: the two tests are made one after the other
PortArgs(e) ==
  (IF Take(e, 4) = X_dpt THEN <<F_dport, SplitOn(e, ":")[2]>> ELSE << >>)
  \o (IF Take(e, 4) = X_spt THEN <<F_sport, SplitOn(e, ":")[2]>> ELSE << >>)

RECURSIVE ExtraArgs(_)
ExtraArgs(es) == IF es = << >> THEN << >> ELSE PortArgs(Head(es)) \o ExtraArgs(Tail(es))

AddrArgs_swapped(rule) ==
  (IF rule.source # ADDR_ANY THEN <<F_s, rule.source>> ELSE << >>)
  \o (IF rule.destination # ADDR_ANY THEN <<F_d, rule.destination>> ELSE << >>)

AddrArgs(rule) ==
  (IF rule.destination # ADDR_ANY THEN <<F_d, rule.destination>> ELSE << >>)
  \o (IF rule.source # ADDR_ANY THEN <<F_s, rule.source>> ELSE << >>)

\* the list built after the assertion has passed
rule_to_command(rule) ==
  <<rule.chain>> \o ProtArgs(rule)
  \o (IF rule.extra # << >> THEN ExtraArgs(Split(rule.extra)) ELSE << >>)
  \o AddrArgs(rule) \o <<F_j, rule.target>>

(***************************************************************************)
(* Iptables._iptables_list(): one iteration of the loop over the lines of  *)
(* the listing.  st is the loop's local state [chain, rules, err].         *)
(***************************************************************************)
OnBlank_keep(st) == st

\* on blank line reset current chain
OnBlank(st) == [st EXCEPT !.chain = None]

\* "source" in line and "destination" in line
IsHeaderLine(line) == Contains(line, H_source) /\ Contains(line, H_destination)

HeaderOk_unchecked(columns) == TRUE

\* assert line.split() == IPTABLES_HEADERS
HeaderOk(columns) == columns = IPTABLES_HEADERS

\* columns and columns[0].isdigit()
IsRuleLine(columns) == columns # << >> /\ IsDigit(columns[1])

RuleColumns_shifted(chain, columns) ==
  <<chain>> \o Take(columns, 10) \o <<JoinSp(Drop(columns, 11))>>

\* join all extra columns into one extra field, keep the first ten, put the
\* chain in front
RuleColumns(chain, columns) ==
  LET extra == JoinSp(Drop(columns, 10))
  IN  <<chain>> \o Take(columns, 10) \o <<extra>>

ParseLine(st, rawline) ==
  LET line == Strip(rawline)
      m == ChainMatch(line)
      columns == Split(line)
  IN  IF line = << >> THEN OnBlank(st)
      ELSE IF m # None /\ m \in RULE_CHAINS THEN [st EXCEPT !.chain = m]
      ELSE IF IsHeaderLine(line)
        THEN IF HeaderOk(columns) THEN st ELSE [st EXCEPT !.err = AssertionError]
      ELSE IF st.chain # None /\ IsRuleLine(columns)
        THEN LET cols == RuleColumns(st.chain, columns)
             IN  IF RuleArityOk(cols)
                 THEN [st EXCEPT !.rules = Append(st.rules, Rule(cols))]
                 ELSE [st EXCEPT !.err = TypeError]
      ELSE st

\* the whole loop over out.split('\n'), stopping at the first exception
RECURSIVE ParseLines(_, _)
ParseLines(st, lines) ==
  IF lines = << >> \/ st.err # NoError THEN st
  ELSE ParseLines(ParseLine(st, Head(lines)), Tail(lines))

\* chain = None, rules = [] before the loop
ParseStart == [chain |-> None, rules |-> << >>, err |-> NoError]

(***************************************************************************)
(* Listing lines the external tool can print, each with what it is by      *)
(* construction: kind, the chain name of a chain line, its columns, and    *)
(* hdr: "good" for the expected header, "bad" for any other line holding   *)
(* both "source" and "destination", "none" otherwise.                      *)
(***************************************************************************)
\* columns as the tool pads them: leading blanks, two blanks between columns
RECURSIVE JoinWide(_)
JoinWide(toks) ==
  IF toks = << >> THEN << >>
  ELSE IF Len(toks) = 1 THEN toks[1]
  ELSE toks[1] \o <<" ", " ">> \o JoinWide(Tail(toks))

Pad(cols) == <<" ">> \o JoinWide(cols) \o <<" ">>

LBlank == [text |-> << >>, kind |-> "blank", name |-> None, cols |-> << >>, hdr |-> "none"]

LBlankWs ==
  [text |-> <<" ", " ">>, kind |-> "blank", name |-> None, cols |-> << >>, hdr |-> "none"]

LChain(name) ==
  [text |-> JoinSp(<<T_Chain, name, T_policy, A_paren>>), kind |-> "chain",
   name |-> name, cols |-> << >>, hdr |-> "none"]

LChainUnk ==
  [text |-> JoinSp(<<T_Chain, DOCKER, T_refs, T_references>>), kind |-> "chain",
   name |-> DOCKER, cols |-> << >>, hdr |-> "none"]

LHeader ==
  [text |-> Pad(IPTABLES_HEADERS), kind |-> "header", name |-> None,
   cols |-> IPTABLES_HEADERS, hdr |-> "good"]

\* the header of a listing made without --line-numbers
LHeaderBad ==
  [text |-> Pad(Tail(IPTABLES_HEADERS)), kind |-> "header", name |-> None,
   cols |-> Tail(IPTABLES_HEADERS), hdr |-> "bad"]

LRuleOf(cols, hdr) ==
  [text |-> Pad(cols), kind |-> "rule", name |-> None, cols |-> cols, hdr |-> hdr]

Cols10 == <<D1, D0, D0, ACCEPT, P_all, O_none, IF_any, IF_any, ADDR_ANY, ADDR_ANY>>

Cols12 ==
  <<D2, D7, D7, DROP, P_tcp, O_none, IF_any, IF_any, ADDR_A, ADDR_ANY, P_tcp, E_dpt7373>>

\* a rule without a target: the target column is blank, nine columns are left
Cols9 == <<D1, D0, D0, P_all, O_none, IF_any, IF_any, ADDR_ANY, ADDR_ANY>>

\* a rule with a comment match naming both words
ColsComment == Cols10 \o <<C_open, H_source, H_destination, C_close>>

LOther ==
  [text |-> JoinSp(<<T_hash, T_note>>), kind |-> "other", name |-> None,
   cols |-> <<T_hash, T_note>>, hdr |-> "none"]

Lines ==
  {LBlank, LBlankWs, LChain(INPUT), LChain(OUTPUT), LChain(FORWARD), LChainUnk,
   LHeader, LHeaderBad, LRuleOf(Cols10, "none"), LRuleOf(Cols12, "none"),
   LRuleOf(Cols9, "none"), LRuleOf(ColsComment, "bad"), LOther}

(***************************************************************************)
(* State.                                                                  *)
(***************************************************************************)
VARIABLES
  \* _iptables_list() and load(): position, loop locals, results
  ppc, chain, rules, perr, ret, inst,
  \* the line just read and, by construction of the input, what has been read
  line, kind, gram, gramOrig, lastName, expected, badHeader, unk, blankSinceRec,
  appended,
  \* Rule.__eq__ / __ne__: the two records, the results
  eq_a, eq_b, eq_res, ne_res,
  \* find(): the snapshot, the query as its items() in iteration order, the result
  snapshot, query, found,
  \* rule_to_command(): the rule, the tokens its extra was written from, the
  \* outcome and the returned list
  cmd_r, cmd_toks, cmd_err, lcmd,
  \* which pure function has been applied
  applied,
  \* Iptables.lock: the RLock's owner (0: unowned) and recursion count
  lock,
  \* per thread: position in exe(), the call in progress, the outcome of the
  \* last call, the arguments of an exe_rule() call in progress or rejected
  tpc, treq, result, lastArgs,
  \* per thread: the output lines exe() returned to _iptables_list()
  tout,
  \* the instance load() returned last and the sequence load() stored in it
  ipt, stored,
  \* the rules in the kernel, first to last
  fw

parseVars ==
  <<ppc, chain, rules, perr, ret, inst, line, kind, gram, gramOrig, lastName,
    expected, badHeader, unk, blankSinceRec, appended>>

pureVars ==
  <<eq_a, eq_b, eq_res, ne_res, snapshot, query, found, cmd_r, cmd_toks, cmd_err,
    lcmd, applied>>

sysVars == <<lock, tpc, treq, result, lastArgs, tout, ipt, stored, fw>>

vars == <<parseVars, pureVars, sysVars>>

\* the variables of a part of the model that a specification does not use
ParseUnused ==
  /\ ppc = "unused" /\ chain = None /\ rules = << >> /\ perr = NoError
  /\ ret = None /\ inst = None
  /\ line = << >> /\ kind = "none" /\ gram = "off" /\ gramOrig = "off"
  /\ lastName = None /\ expected = << >> /\ badHeader = FALSE /\ unk = FALSE
  /\ blankSinceRec = TRUE /\ appended = FALSE

EqUnused == eq_a = None /\ eq_b = None /\ eq_res = FALSE /\ ne_res = FALSE

FindUnused == snapshot = << >> /\ query = << >> /\ found = << >>

CmdUnused == cmd_r = None /\ cmd_toks = << >> /\ cmd_err = NoError /\ lcmd = << >>

PureUnused == EqUnused /\ FindUnused /\ CmdUnused /\ applied = "none"

SysUnused ==
  /\ lock = [owner |-> 0, count |-> 0] /\ tpc = << >> /\ treq = << >>
  /\ result = << >> /\ lastArgs = << >> /\ tout = << >> /\ ipt = None
  /\ stored = << >> /\ fw = << >>

(***************************************************************************)
(* What the listing read so far is, told from the lines' construction.     *)
(***************************************************************************)
\* a rule line with its ten columns that is not taken for a header
FullRule(l) == l.kind = "rule" /\ Len(l.cols) >= 10 /\ l.hdr = "none"

\* the listing grammar: sections of a recognized chain line, the expected
\* header line and rule lines, a blank line after each section; strict says
\* which rule lines are admitted
GramNext(g, l, strict) ==
  IF g = "start" /\ l.kind = "chain" /\ l.name \in RULE_CHAINS THEN "chain"
  ELSE IF g = "chain" /\ l.hdr = "good" THEN "body"
  ELSE IF g = "body" /\ l.kind = "rule" /\ (strict => FullRule(l)) THEN "body"
  ELSE IF g = "body" /\ l.kind = "blank" THEN "start"
  ELSE "off"

\* the record a rule line stands for under the chain named last
At(cols, i) == IF i <= Len(cols) THEN cols[i] ELSE None

Expect(name, cols) ==
  [chain |-> name, num |-> At(cols, 1), pkts |-> At(cols, 2), bytes |-> At(cols, 3),
   target |-> At(cols, 4), prot |-> At(cols, 5), opt |-> At(cols, 6),
   inp |-> At(cols, 7), out |-> At(cols, 8), source |-> At(cols, 9),
   destination |-> At(cols, 10), extra |-> JoinSp(Drop(cols, 10))]

(***************************************************************************)
(* The parser, line by line.                                               *)
(***************************************************************************)
InitParse ==
  /\ PureUnused /\ SysUnused
  /\ ppc = "loop" /\ chain = None /\ rules = << >> /\ perr = NoError
  /\ ret = None /\ inst = None
  /\ line = << >> /\ kind = "none" /\ gram = "start" /\ gramOrig = "start"
  /\ lastName = None /\ expected = << >> /\ badHeader = FALSE /\ unk = FALSE
  /\ blankSinceRec = TRUE /\ appended = FALSE

\* one iteration of "for line in out.split('\n')"
ParseStep(l) ==
  /\ ppc = "loop"
  /\ l.kind = "rule" => Len(rules) < MaxRules
  /\ LET st == ParseLine([chain |-> chain, rules |-> rules, err |-> NoError], l.text)
     IN  /\ chain' = st.chain
         /\ rules' = st.rules
         /\ perr' = st.err
         /\ ppc' = IF st.err = NoError THEN "loop" ELSE "raised"
         /\ appended' = (Len(st.rules) > Len(rules))
  /\ line' = l.text
  /\ kind' = l.kind
  /\ gram' = GramNext(gram, l, TRUE)
  /\ gramOrig' = GramNext(gramOrig, l, FALSE)
  /\ lastName' = IF l.kind = "chain" THEN l.name ELSE lastName
  /\ expected' = IF GramNext(gramOrig, l, FALSE) = "off" THEN << >>
                 ELSE IF l.kind = "rule" THEN Append(expected, Expect(lastName, l.cols))
                 ELSE expected
  /\ badHeader' = (badHeader \/ l.hdr = "bad")
  /\ unk' = IF l.kind = "chain" THEN l.name \notin RULE_CHAINS ELSE unk
  /\ blankSinceRec' = IF l.kind = "chain" /\ l.name \in RULE_CHAINS THEN FALSE
                      ELSE IF l.kind = "blank" THEN TRUE
                      ELSE blankSinceRec
  /\ UNCHANGED <<ret, inst, pureVars, sysVars>>

\* "return rules", then load() wraps them: inst = Iptables(rules)
ParseReturn ==
  /\ ppc = "loop"
  /\ ppc' = "returned"
  /\ ret' = rules
  /\ inst' = [rules |-> rules]
  /\ UNCHANGED <<chain, rules, perr, line, kind, gram, gramOrig, lastName, expected,
                 badHeader, unk, blankSinceRec, appended, pureVars, sysVars>>

NextParse == (\E l \in Lines : ParseStep(l)) \/ ParseReturn

SpecParse == InitParse /\ [][NextParse]_vars

(***************************************************************************)
(* Rule.__eq__ and __ne__ applied to pairs of records.                     *)
(***************************************************************************)
AttrSet == {RULE_ATTRS[i] : i \in 1..Len(RULE_ATTRS)}

RuleOne ==
  Rule(<<INPUT, D1, D0, D0, ACCEPT, P_all, O_none, IF_any, IF_any, ADDR_ANY, ADDR_ANY,
         << >>>>)

RuleTwo ==
  Rule(<<OUTPUT, D2, D7, D7, DROP, P_tcp, O_frag, IF_eth0, IF_eth0, ADDR_A, ADDR_A,
         JoinSp(<<P_tcp, E_dpt7373>>)>>)

\* rule x with the attributes in d given the value the other record has
Variant(x, d) ==
  [f \in AttrSet |->
     IF f \in d THEN (IF x[f] = RuleOne[f] THEN RuleTwo[f] ELSE RuleOne[f]) ELSE x[f]]

InitEq ==
  /\ ParseUnused /\ SysUnused /\ FindUnused /\ CmdUnused /\ applied = "none"
  /\ eq_a \in {RuleOne, RuleTwo}
  /\ \E d \in SUBSET AttrSet : eq_b = Variant(eq_a, d)
  /\ eq_res = FALSE /\ ne_res = FALSE

Compare ==
  /\ applied = "none"
  /\ applied' = "eq"
  /\ eq_res' = Rule_eq(eq_a, eq_b)
  /\ ne_res' = Rule_ne(eq_a, eq_b)
  /\ UNCHANGED <<parseVars, sysVars, eq_a, eq_b, snapshot, query, found, cmd_r, cmd_toks,
                 cmd_err, lcmd>>

NextEq == Compare

SpecEq == InitEq /\ [][NextEq]_vars

(***************************************************************************)
(* find() applied to snapshots and queries.                                *)
(***************************************************************************)
\* longest snapshot
MaxSnap == 2

SnapPool ==
  {RuleFromDict([chain |-> INPUT, target |-> ACCEPT]),
   RuleFromDict([chain |-> INPUT, target |-> DROP, prot |-> P_tcp,
                 extra |-> JoinSp(<<P_tcp, E_dpt7373>>)]),
   RuleFromDict([chain |-> OUTPUT, target |-> ACCEPT]),
   RuleFromDict([chain |-> OUTPUT, target |-> DROP, prot |-> P_tcp])}

Snapshots == UNION {[1..n -> SnapPool] : n \in 0..MaxSnap}

QueryParams == {"chain", "prot", "extra"}

QueryVals(param) ==
  IF param = "chain" THEN {<< >>, <<INPUT>>, <<OUTPUT>>, <<INPUT, OUTPUT>>}
  ELSE IF param = "prot" THEN {<< >>, <<P_all>>, <<P_tcp>>, <<P_all, P_tcp>>}
  ELSE {<< >>, <<None>>, <<JoinSp(<<P_tcp, E_dpt7373>>)>>, <<None, P_tcp>>}

\* the items of a dictionary: no parameter twice, any order
Queries ==
  {q \in UNION {[1..n -> [param : QueryParams, vals : UNION {QueryVals(x) : x \in QueryParams}]]
                 : n \in 0..Cardinality(QueryParams)} :
     /\ \A i \in 1..Len(q) : q[i].vals \in QueryVals(q[i].param)
     /\ \A i, j \in 1..Len(q) : q[i].param = q[j].param => i = j}

InitFind ==
  /\ ParseUnused /\ SysUnused /\ EqUnused /\ CmdUnused /\ applied = "none"
  /\ snapshot \in Snapshots
  /\ query \in Queries
  /\ found = << >>

Find ==
  /\ applied = "none"
  /\ applied' = "find"
  /\ found' = find(snapshot, query)
  /\ UNCHANGED <<parseVars, sysVars, eq_a, eq_b, eq_res, ne_res, snapshot, query, cmd_r,
                 cmd_toks, cmd_err, lcmd>>

NextFind == Find

SpecFind == InitFind /\ [][NextFind]_vars

(***************************************************************************)
(* rule_to_command() applied to rules.                                     *)
(***************************************************************************)
\* most tokens in a rule's extra
MaxExtra == 3

\* the tokens the listing shows after the ten columns, each with the option
\* and value it stands for
ExtraToks ==
  {[text |-> P_tcp, flag |-> None, val |-> None],
   [text |-> E_dpt7373, flag |-> F_dport, val |-> PORT_7373],
   [text |-> E_spt34543, flag |-> F_sport, val |-> PORT_34543],
   [text |-> E_dpts, flag |-> None, val |-> None]}

TokSeqs == UNION {[1..n -> ExtraToks] : n \in 0..MaxExtra}

Texts(toks) == [i \in 1..Len(toks) |-> toks[i].text]

InitCmd ==
  /\ ParseUnused /\ SysUnused /\ EqUnused /\ FindUnused /\ applied = "none"
  /\ cmd_toks \in TokSeqs
  /\ \E c \in RULE_CHAINS \cup {DOCKER}, p \in {P_all, P_tcp}, t \in {ACCEPT, DROP},
        src \in {ADDR_ANY, ADDR_A}, dst \in {ADDR_ANY, ADDR_A} :
       cmd_r = RuleFromDict([chain |-> c, target |-> t, prot |-> p, source |-> src,
                             destination |-> dst, extra |-> JoinSp(Texts(cmd_toks))])
  /\ cmd_err = NoError /\ lcmd = << >>

Command ==
  /\ applied = "none"
  /\ applied' = "cmd"
  /\ IF ChainOk(cmd_r)
     THEN cmd_err' = NoError /\ lcmd' = rule_to_command(cmd_r)
     ELSE cmd_err' = AssertionError /\ lcmd' = << >>
  /\ UNCHANGED <<parseVars, sysVars, eq_a, eq_b, eq_res, ne_res, snapshot, query, found, cmd_r,
                 cmd_toks>>

NextCmd == Command

SpecCmd == InitCmd /\ [][NextCmd]_vars

(***************************************************************************)
(* The external tool: the kernel's rules, the effect of -I and -D on them  *)
(* and the text of the listing.                                            *)
(***************************************************************************)
\* the value following flag among the arguments, or dflt
OptVal(args, flag, dflt) ==
  IF \E i \in 1..(Len(args) - 1) : args[i] = flag
  THEN args[(CHOOSE i \in 1..(Len(args) - 1) : args[i] = flag) + 1]
  ELSE dflt

\* the kernel rule that the arguments after the tool's path describe
ToolRule(args) ==
  [chain |-> args[2], target |-> OptVal(args, F_j, None), prot |-> OptVal(args, F_p, P_all),
   source |-> OptVal(args, F_s, ADDR_ANY), destination |-> OptVal(args, F_d, ADDR_ANY),
   dport |-> OptVal(args, F_dport, None), sport |-> OptVal(args, F_sport, None)]

\* -I: insert at the head
ToolInsert(kernel, k) == <<k>> \o kernel

\* -D: delete the first rule that matches
ToolDelete(kernel, k) ==
  LET i == CHOOSE j \in 1..Len(kernel) :
             kernel[j] = k /\ \A h \in 1..(j - 1) : kernel[h] # k
  IN  SubSeq(kernel, 1, i - 1) \o SubSeq(kernel, i + 1, Len(kernel))

DigitChar(d) == <<"0","1","2","3","4","5","6","7","8","9">>[d + 1]

RECURSIVE Dec(_)
Dec(n) == IF n < 10 THEN <<DigitChar(n)>> ELSE Dec(n \div 10) \o <<DigitChar(n % 10)>>

\* the line of the num-th rule of a chain
ToolRuleLine(num, k) ==
  Pad(<<Dec(num), D0, D0, k.target, k.prot, O_none, IF_any, IF_any, k.source,
        k.destination>>
      \o (IF k.dport # None \/ k.sport # None THEN <<k.prot>> ELSE << >>)
      \o (IF k.sport # None THEN <<X_spt \o k.sport>> ELSE << >>)
      \o (IF k.dport # None THEN <<X_dpt \o k.dport>> ELSE << >>))

ToolSection(kernel, c) ==
  LET InChain(k) == k.chain = c
      ks == SelectSeq(kernel, InChain)
  IN  <<LChain(c).text, LHeader.text>>
      \o [i \in 1..Len(ks) |-> ToolRuleLine(i, ks[i])]
      \o << << >> >>

\* the lines of the output of -n -L -v -x --line-numbers
ToolListing(kernel) ==
  ToolSection(kernel, INPUT) \o ToolSection(kernel, FORWARD) \o ToolSection(kernel, OUTPUT)

\* a run of the tool that does its work: exit code, output lines, kernel after
ToolRun(args, kernel) ==
  IF args[1] = F_I
    THEN [rc |-> 0, out |-> << >>, fw |-> ToolInsert(kernel, ToolRule(args))]
  ELSE IF args[1] = F_D
    THEN IF \E j \in 1..Len(kernel) : kernel[j] = ToolRule(args)
         THEN [rc |-> 0, out |-> << >>, fw |-> ToolDelete(kernel, ToolRule(args))]
         ELSE [rc |-> 1, out |-> << >>, fw |-> kernel]
  ELSE IF F_linenumbers \in {args[i] : i \in 1..Len(args)}
    THEN [rc |-> 0, out |-> ToolListing(kernel), fw |-> kernel]
  ELSE [rc |-> 0, out |-> << >>, fw |-> kernel]

\* a run that fails (no permission, the tables locked by another program)
ToolFail(kernel) == [rc |-> 1, out |-> << >>, fw |-> kernel]

(***************************************************************************)
(* Threads calling the static methods of Iptables.                         *)
(***************************************************************************)
Threads == 1..NThreads

NoReq == [op |-> "none", cmd |-> << >>]

NoArgs == [modify |-> None, chain |-> None]

OSError == "OSError"
CalledProcessError == "CalledProcessError"
Exception == "Exception"

\* the rules the callers pass to exe_rule()
CallerRules ==
  {RuleFromDict([chain |-> INPUT, target |-> DROP, prot |-> P_tcp, source |-> ADDR_A,
                 extra |-> JoinSp(<<P_tcp, E_dpt7373>>)]),
   RuleFromDict([chain |-> DOCKER, target |-> DROP])}

Modifiers == {M_I, M_D, M_A}

\* assert modify == 'I' or modify == 'D'
ModifyOk(modify) == modify = M_I \/ modify = M_D

\* cmd = [Iptables.ipt_path] + lcmd
ExeCmd(lcmd_) == <<IPT_PATH>> \o lcmd_

\* RLock.acquire() does not block when the lock is unowned or owned by the caller
LockAvailable_always(t) == TRUE

LockAvailable(t) == lock.owner = 0 \/ lock.owner = t

LockAcquired(t) == [owner |-> t, count |-> lock.count + 1]

\* RLock.release(), as the with block makes it on the way out
LockReleased ==
  IF lock.count = 1 THEN [owner |-> 0, count |-> 0]
  ELSE [lock EXCEPT !.count = lock.count - 1]

LockAfterRaise_kept == lock

\* the with block is left by an exception: the lock is released all the same
LockAfterRaise == LockReleased

\* inserts on their way to the kernel
PendingInserts ==
  Cardinality({t \in Threads : treq[t].op = "exe_rule" /\ treq[t].cmd[2] = F_I})

InitSys ==
  /\ ParseUnused /\ PureUnused
  /\ lock = [owner |-> 0, count |-> 0]
  /\ tpc = [t \in Threads |-> "idle"]
  /\ treq = [t \in Threads |-> NoReq]
  /\ result = [t \in Threads |-> "none"]
  /\ lastArgs = [t \in Threads |-> NoArgs]
  /\ tout = [t \in Threads |-> << >>]
  /\ ipt = None /\ stored = << >> /\ fw = << >>

\* the call reaches exe(lcmd): cmd is built, the thread is at "with Iptables.lock"
EnterExe(t, op, lcmd_, args) ==
  /\ tpc' = [tpc EXCEPT ![t] = "waiting"]
  /\ treq' = [treq EXCEPT ![t] = [op |-> op, cmd |-> ExeCmd(lcmd_)]]
  /\ result' = [result EXCEPT ![t] = "none"]
  /\ lastArgs' = [lastArgs EXCEPT ![t] = args]
  /\ UNCHANGED <<lock, tout, ipt, stored, fw>>

\* load() -> _iptables_list() -> exe(['-n', '-L', '-v', '-x', '--line-numbers'])
CallLoad(t) ==
  /\ tpc[t] = "idle"
  /\ EnterExe(t, "load", <<F_n, F_L, F_v, F_x, F_linenumbers>>, NoArgs)
  /\ UNCHANGED <<parseVars, pureVars>>

\* verify_install() -> exe(['-h'])
CallVerifyInstall(t) ==
  /\ tpc[t] = "idle"
  /\ EnterExe(t, "verify_install", <<F_h>>, NoArgs)
  /\ UNCHANGED <<parseVars, pureVars>>

\* verify_permission() -> exe(['-n', '-L', 'OUTPUT'])
CallVerifyPermission(t) ==
  /\ tpc[t] = "idle"
  /\ EnterExe(t, "verify_permission", <<F_n, F_L, OUTPUT>>, NoArgs)
  /\ UNCHANGED <<parseVars, pureVars>>

\* exe_rule(modify, rule): the two assertions, then exe(['-' + modify] + lcmd)
CallExeRule(t, modify, rule) ==
  /\ tpc[t] = "idle"
  /\ modify = M_I => Len(fw) + PendingInserts < MaxFw
  /\ IF ModifyOk(modify) /\ ChainOk(rule)
     THEN EnterExe(t, "exe_rule", <<<<"-">> \o modify>> \o rule_to_command(rule),
                   [modify |-> modify, chain |-> rule.chain])
     ELSE /\ result' = [result EXCEPT ![t] = AssertionError]
          /\ lastArgs' = [lastArgs EXCEPT ![t] = [modify |-> modify, chain |-> rule.chain]]
          /\ UNCHANGED <<lock, tpc, treq, tout, ipt, stored, fw>>
  /\ UNCHANGED <<parseVars, pureVars>>

\* ipt.find(query) on the instance loaded last: the list goes to the caller
CallFind(t, q) ==
  /\ tpc[t] = "idle"
  /\ ipt # None
  /\ result' = [result EXCEPT ![t] = IF find(ipt.rules, q) = << >> THEN "found none"
                                     ELSE "found"]
  /\ lastArgs' = [lastArgs EXCEPT ![t] = NoArgs]
  /\ UNCHANGED <<lock, tpc, treq, tout, ipt, stored, fw, parseVars, pureVars>>

\* with Iptables.lock: the lock is taken
Acquire(t) ==
  /\ tpc[t] = "waiting"
  /\ LockAvailable(t)
  /\ lock' = LockAcquired(t)
  /\ tpc' = [tpc EXCEPT ![t] = "locked"]
  /\ UNCHANGED <<treq, result, lastArgs, tout, ipt, stored, fw, parseVars, pureVars>>

\* subprocess.check_output(cmd, ...): the external process starts
Spawn(t) ==
  /\ tpc[t] = "locked"
  /\ tpc' = [tpc EXCEPT ![t] = "running"]
  /\ UNCHANGED <<lock, treq, result, lastArgs, tout, ipt, stored, fw, parseVars, pureVars>>

\* the call is over: the thread is idle with its outcome
Leave(t, outcome, lk) ==
  /\ tpc' = [tpc EXCEPT ![t] = "idle"]
  /\ treq' = [treq EXCEPT ![t] = NoReq]
  /\ result' = [result EXCEPT ![t] = outcome]
  /\ lastArgs' = [lastArgs EXCEPT ![t] = NoArgs]
  /\ lock' = lk

\* check_output cannot start the process: OSError leaves the with block and
\* exe(); verify_install() turns it into its own Exception
SpawnFail(t) ==
  /\ tpc[t] = "locked"
  /\ Leave(t, IF treq[t].op = "verify_install" THEN Exception ELSE OSError,
           LockAfterRaise)
  /\ UNCHANGED <<tout, ipt, stored, fw, parseVars, pureVars>>

\* what exe_rule() leaves in the instance loaded before: nothing is refreshed
AfterExeRule_refreshed(instance, kernel) ==
  IF instance = None THEN None
  ELSE [rules |-> ParseLines(ParseStart, ToolListing(kernel)).rules]

AfterExeRule(instance, kernel) == instance

\* the external process exits; check_output returns its output or raises
\* CalledProcessError; the with block is left and exe() ends.  load() goes on
\* with the output, the other callers are done
ProcExit(t, fails) ==
  /\ tpc[t] = "running"
  /\ LET run == IF fails THEN ToolFail(fw) ELSE ToolRun(Tail(treq[t].cmd), fw)
     IN  /\ fw' = run.fw
         /\ IF run.rc # 0
            THEN /\ Leave(t, IF treq[t].op = "verify_permission" THEN Exception
                             ELSE CalledProcessError, LockAfterRaise)
                 /\ UNCHANGED <<ipt, stored, tout>>
            ELSE IF treq[t].op = "load"
            THEN /\ tpc' = [tpc EXCEPT ![t] = "parsing"]
                 /\ tout' = [tout EXCEPT ![t] = run.out]
                 /\ lock' = LockReleased
                 /\ UNCHANGED <<treq, result, lastArgs, ipt, stored>>
            ELSE IF treq[t].op = "exe_rule"
            THEN /\ Leave(t, "ok", LockReleased)
                 /\ ipt' = AfterExeRule(ipt, run.fw)
                 /\ UNCHANGED <<stored, tout>>
            ELSE Leave(t, "ok", LockReleased) /\ UNCHANGED <<ipt, stored, tout>>
  /\ UNCHANGED <<parseVars, pureVars>>

\* the rest of _iptables_list() and of load(): the loop over the lines, then
\* inst = Iptables(rules)
LoadParse(t) ==
  /\ tpc[t] = "parsing"
  /\ LET parsed == ParseLines(ParseStart, tout[t])
     IN  /\ tpc' = [tpc EXCEPT ![t] = "idle"]
         /\ treq' = [treq EXCEPT ![t] = NoReq]
         /\ tout' = [tout EXCEPT ![t] = << >>]
         /\ IF parsed.err # NoError
            THEN /\ result' = [result EXCEPT ![t] = parsed.err]
                 /\ UNCHANGED <<ipt, stored>>
            ELSE /\ result' = [result EXCEPT ![t] = "ok"]
                 /\ ipt' = [rules |-> parsed.rules]
                 /\ stored' = parsed.rules
  /\ UNCHANGED <<lock, lastArgs, fw, parseVars, pureVars>>

ProcEnd(t) == ProcExit(t, FALSE) \/ ProcExit(t, TRUE)

FindQueries ==
  {<<[param |-> "chain", vals |-> <<OUTPUT>>]>>,
   <<[param |-> "chain", vals |-> <<INPUT, OUTPUT>>], [param |-> "prot", vals |-> <<P_tcp>>]>>}

Next ==
  \E t \in Threads :
    \/ CallLoad(t)
    \/ CallVerifyInstall(t)
    \/ CallVerifyPermission(t)
    \/ \E m \in Modifiers, x \in CallerRules : CallExeRule(t, m, x)
    \/ \E q \in FindQueries : CallFind(t, q)
    \/ Acquire(t)
    \/ Spawn(t)
    \/ SpawnFail(t)
    \/ ProcEnd(t)
    \/ LoadParse(t)

Spec == InitSys /\ [][Next]_vars

\* every process started exits, a thread that holds the lock goes on, and a
\* thread waiting for the lock gets it if it is free again and again
FairSpec ==
  /\ Spec
  /\ \A t \in Threads :
       /\ WF_vars(ProcEnd(t))
       /\ WF_vars(Spawn(t) \/ SpawnFail(t))
       /\ SF_vars(Acquire(t))

(***************************************************************************)
(* Claims about the parser, under SpecParse.                               *)
(***************************************************************************)
\* C4 as stated: a listing made of recognized chain sections (chain line,
\* expected header, lines whose first token is numeric, a blank line between
\* sections) is parsed without error into one record per numeric-first line,
\* in order, under the chain named last.
C4_Original ==
  gramOrig # "off" =>
    /\ perr = NoError
    /\ rules = expected
    /\ ppc = "returned" => ret = expected

\* C4 amended: the same, for listings whose rule lines have at least ten
\* columns and do not hold both "source" and "destination".
C4_ParsedInOrder ==
  gram # "off" =>
    /\ perr = NoError
    /\ rules = expected
    /\ ppc = "returned" => ret = expected

C4_Witness ==
  /\ gram # "off" /\ ppc = "returned" /\ Len(ret) = 2
  /\ ret[1].chain # ret[2].chain /\ ret[2].extra # << >>

\* C5: once a line holding both "source" and "destination" whose columns are
\* not the expected header has been read, the parse has failed with the
\* assertion's error, nothing is returned and load() made no instance.
C5_BadHeaderFails ==
  badHeader => ppc = "raised" /\ perr = AssertionError /\ ret = None /\ inst = None

C5_Witness == badHeader /\ ppc = "raised" /\ Len(rules) >= 1 /\ chain = None

Range(f) == {f[i] : i \in DOMAIN f}

\* C3: a == b is true exactly when the two records agree on every attribute
\* other than num, pkts and bytes, and a != b is its negation.
C3_EqualityFields ==
  applied = "eq" =>
    /\ eq_res = (\A f \in AttrSet \ {"num", "pkts", "bytes"} : eq_a[f] = eq_b[f])
    /\ ne_res = ~eq_res

\* C6: find(query) is the subsequence, in order, of the rules whose value for
\* every field of the query is among the query's values for that field; its
\* length is the count left by filtering the snapshot field after field; the
\* empty query returns the whole snapshot.
Accepts(q, x) == \A i \in 1..Len(q) : x[q[i].param] \in Range(q[i].vals)

RECURSIVE FieldByField(_, _)
FieldByField(rs, q) ==
  IF q = << >> THEN rs
  ELSE LET Keep(x) == x[Head(q).param] \in Range(Head(q).vals)
       IN  FieldByField(SelectSeq(rs, Keep), Tail(q))

C6_FindIsFilter ==
  applied = "find" =>
    LET Ok(x) == Accepts(query, x)
    IN  /\ found = SelectSeq(snapshot, Ok)
        /\ Len(found) = Len(FieldByField(snapshot, query))
        /\ query = << >> => found = snapshot

C6_Witness ==
  /\ applied = "find" /\ Len(query) = 2 /\ Len(snapshot) = 2 /\ Len(found) = 1
  /\ found[1] = snapshot[2]

\* C7: for a rule of a recognized chain the command is the chain, -p and the
\* protocol unless it is "all", --dport/--sport and the port for each dpt:/spt:
\* token of extra in token order, -d and the destination unless it is the
\* wildcard, -s and the source unless it is the wildcard, -j and the target.
RECURSIVE PortOptions(_)
PortOptions(toks) ==
  IF toks = << >> THEN << >>
  ELSE (IF Head(toks).flag # None THEN <<Head(toks).flag, Head(toks).val>> ELSE << >>)
       \o PortOptions(Tail(toks))

CommandExample ==
  RuleFromDict([chain |-> INPUT, target |-> ACCEPT, prot |-> P_tcp,
                extra |-> JoinSp(<<P_tcp, E_dpt7373, E_spt34543>>)])

Running == {t \in Threads : tpc[t] = "running"}

\* C1: at most one external process runs at any time, and it is the lock
\* owner's.
C1_OneInvocation ==
  /\ Cardinality(Running) <= 1
  /\ \A t \in Running : lock.owner = t

C1_Witness ==
  \E t, u \in Threads : tpc[t] = "running" /\ tpc[u] = "waiting" /\ treq[u].op = "load"
                        /\ treq[t].op = "exe_rule"

\* C9: the instance load() returned holds exactly the sequence load() stored,
\* whatever find() and exe_rule() calls were made since.
C9_SnapshotKept == ipt # None => ipt.rules = stored

C9_Witness ==
  /\ ipt # None
  /\ stored # ParseLines(ParseStart, ToolListing(fw)).rules
  /\ \E t \in Threads : result[t] = "found"

\* C2: a thread that is not inside the with block of exe() does not own the
\* lock, however its last call ended; and a thread waiting for the lock while
\* another thread's call has failed gets the lock and goes on to run its
\* command.
Failures == {OSError, CalledProcessError, Exception}

C2_NotHeld ==
  \A t \in Threads : tpc[t] \in {"idle", "waiting", "parsing"} => lock.owner # t

ArgsValid(args) == args.modify \in {M_I, M_D} /\ args.chain \in {INPUT, OUTPUT, FORWARD}

C8_Inv ==
  \A t \in Threads :
    /\ treq[t].op = "exe_rule" =>
         /\ ArgsValid(lastArgs[t])
         /\ treq[t].cmd[2] \in {F_I, F_D}
         /\ treq[t].cmd[3] \in {INPUT, OUTPUT, FORWARD}
    /\ (lastArgs[t] # NoArgs /\ ~ArgsValid(lastArgs[t])) =>
         (tpc[t] = "idle" /\ result[t] = AssertionError /\ lock.owner # t)

C8_Step ==
  \A t \in Threads :
    (/\ lastArgs'[t] # NoArgs /\ ~ArgsValid(lastArgs'[t])
     /\ <<lastArgs[t], result[t]>> # <<lastArgs'[t], result'[t]>>)
      => (fw' = fw /\ lock' = lock /\ tpc' = tpc /\ treq' = treq /\ ipt' = ipt)

C8_Validated == []C8_Inv /\ [][C8_Step]_vars

C8_Witness ==
  \E t, u \in Threads :
    /\ lastArgs[t] = [modify |-> M_I, chain |-> DOCKER] /\ result[t] = AssertionError
    /\ tpc[u] = "running" /\ Len(fw) >= 1

====
